---------------------------- MODULE Spec2Model ----------------------------
(***************************************************************************)
(* Coyote waveform library (Coyote-ESP32/Waveforms.h).                     *)
(*                                                                         *)
(* The header holds a configuration word, two packed 32-bit bitfield       *)
(* structs (PowerVal, WaveVal) of which the first 3 bytes are transmitted, *)
(* and five constant waveform tables.  An object is modelled as the record *)
(* of its bitfields; its storage image is the 32-bit word the target       *)
(* (little-endian, bitfields allocated from bit 0 upward) lays the fields  *)
(* out in, and the bytes of that word in address order.                    *)
(***************************************************************************)
EXTENDS Integers, Sequences, FiniteSets

(***************************************************************************)
(* Bounds of the model.                                                    *)
(***************************************************************************)
\* WaveVal(X, Y, Z) arguments are sampled MaxLow + 1 deep at every edge of
\* the field and of the argument type.
MaxLow == 0
\* Byte vectors handed to WaveVal(std::vector<uint8_t>) have 0..MaxBytes bytes.
MaxBytes == 4

(***************************************************************************)
(* Integer types and bitfields.                                            *)
(***************************************************************************)
UInt8 == 0 .. (2^8 - 1)

\* A value stored into an unsigned bitfield of w bits keeps its low w bits.
Field(v, w) == v % (2^w)

\* Byte i (0-based address offset) of a word on the little-endian target.
ByteOf(word, i) == (word \div (2^(8 * i))) % (2^8)

Image_BigEndian(low, top) == << top, ByteOf(low, 2), ByteOf(low, 1), ByteOf(low, 0) >>

\* The four bytes of an object's storage, in address order.  The 32-bit
\* storage word is kept in two parts, bits 0-23 (low) and bits 24-31 (top),
\* so that every number stays below 2^31.
Image(low, top) == << ByteOf(low, 0), ByteOf(low, 1), ByteOf(low, 2), top >>

\* "transmitted LSB first 3 bytes only": what a reader of the uint8_t* sends.
First3(image) == << image[1], image[2], image[3] >>

(***************************************************************************)
(* struct CFGval / gCoyoteCfg                                              *)
(***************************************************************************)
CFGval(step, maxPwr, rsvd) ==
    [step |-> Field(step, 8), maxPwr |-> Field(maxPwr, 11), rsvd |-> Field(rsvd, 13)]

gCoyoteCfg_Step21 == CFGval(21, 2000, 0)

\* gCoyoteCfg = {7, 2000, 0}
gCoyoteCfg_Init == CFGval(7, 2000, 0)

(***************************************************************************)
(* struct PowerVal                                                         *)
(***************************************************************************)
MAXPOWER == 100

PowerVal_NoClamp(cfg, a, b) ==
    [B    |-> Field(b * cfg.step, 11),
     A    |-> Field(a * cfg.step, 11),
     rsvd |-> Field(0, 10)]

\* PowerVal(uint8_t a, uint8_t b).  The products are computed in uint32_t
\* and are at most 255 * 255, so they never wrap before the field cuts them.
PowerVal(cfg, a, b) ==
    [B    |-> Field((IF b < 100 THEN b ELSE MAXPOWER) * cfg.step, 11),
     A    |-> Field((IF a < 100 THEN a ELSE MAXPOWER) * cfg.step, 11),
     rsvd |-> Field(0, 10)]

PowerWord_Swapped(p) == p.A + (2^11) * p.B + (2^22) * (p.rsvd % (2^2))

\* Bits 0-23 of the storage word of a PowerVal: B in bits 0-10, A in bits
\* 11-21, the low 2 bits of rsvd in bits 22-23.
PowerWord(p) == p.B + (2^11) * p.A + (2^22) * (p.rsvd % (2^2))

\* PowerVal::operator uint8_t*() : the object's own storage; the top 8 bits
\* of rsvd are byte 3.
PowerValBytes(p) == Image(PowerWord(p), p.rsvd \div (2^2))

(***************************************************************************)
(* struct WaveVal                                                          *)
(***************************************************************************)
Min(m, n) == IF m < n THEN m ELSE n

WaveVal_Clamped(X, Y, Z) ==
    [x    |-> Min(X, 2^5 - 1),
     y    |-> Min(Y, 2^10 - 1),
     z    |-> Min(Z, 2^5 - 1),
     rsvd |-> 0]

\* WaveVal(uint8_t X, uint16_t Y, uint8_t Z)
WaveVal(X, Y, Z) ==
    [x    |-> Field(X, 5),
     y    |-> Field(Y, 10),
     z    |-> Field(Z, 5),
     rsvd |-> Field(0, 12)]

WaveWord_YZSwapped(w) == w.x + (2^5) * w.z + (2^10) * w.y + (2^20) * (w.rsvd % (2^4))

\* Bits 0-23 of the storage word of a WaveVal: x in bits 0-4, y in 5-14,
\* z in 15-19, the low 4 bits of rsvd in bits 20-23.
WaveWord(w) == w.x + (2^5) * w.y + (2^15) * w.z + (2^20) * (w.rsvd % (2^4))

\* The bitfields read back from storage: bits 0-23 (low) and byte 3 (top).
WaveFields(low, top) ==
    [x    |-> Field(low, 5),
     y    |-> Field(low \div (2^5), 10),
     z    |-> Field(low \div (2^15), 5),
     rsvd |-> (low \div (2^20)) + (2^4) * top]

RECURSIVE Pad_Front(_)
Pad_Front(bytes) == IF Len(bytes) < 3 THEN Pad_Front(<<0>> \o bytes) ELSE bytes

\* while (bytes.size() < 3) bytes.push_back(0x00);
RECURSIVE Pad(_)
Pad(bytes) == IF Len(bytes) < 3 THEN Pad(Append(bytes, 0)) ELSE bytes

\* WaveVal(std::vector<uint8_t> bytes): no member is initialised; bytes 0..2
\* of the object are overwritten and byte 3 keeps what the storage held
\* before the construction (old).
WaveValFromBytes(bytes, old) ==
    LET p == Pad(bytes)
    IN  WaveFields(p[1] + (2^8) * p[2] + (2^16) * p[3], old)

\* WaveVal::operator uint8_t*() : the object's own storage; the top 8 bits
\* of rsvd are byte 3.
WaveValBytes(w) == Image(WaveWord(w), w.rsvd \div (2^4))

(***************************************************************************)
(* The pre-defined waveforms.  A GrainTouch step is built by the byte      *)
(* constructor, which never writes the top 8 bits of rsvd: the table holds *)
(* the 24 bits that were written (top bits 0 here) and a read of a step    *)
(* (Lookup) observes whatever the storage held in the other 8.             *)
(***************************************************************************)
DGLABS_GrainTouch_Reordered ==
    << WaveValFromBytes(<<225, 3, 10>>, 0), WaveValFromBytes(<<225, 3, 0>>, 0),
       WaveValFromBytes(<<161, 4, 10>>, 0), WaveValFromBytes(<<193, 5, 10>>, 0),
       WaveValFromBytes(<<1, 7, 0>>, 0),    WaveValFromBytes(<<33, 1, 10>>, 0),
       WaveValFromBytes(<<97, 1, 10>>, 0),  WaveValFromBytes(<<161, 1, 10>>, 0),
       WaveValFromBytes(<<1, 2, 0>>, 0),    WaveValFromBytes(<<1, 2, 10>>, 0),
       WaveValFromBytes(<<129, 2, 10>>, 0), WaveValFromBytes(<<33, 3, 10>>, 0) >>

DGLABS_GrainTouch ==
    << WaveValFromBytes(<<225, 3, 0>>, 0),  WaveValFromBytes(<<225, 3, 10>>, 0),
       WaveValFromBytes(<<161, 4, 10>>, 0), WaveValFromBytes(<<193, 5, 10>>, 0),
       WaveValFromBytes(<<1, 7, 0>>, 0),    WaveValFromBytes(<<33, 1, 10>>, 0),
       WaveValFromBytes(<<97, 1, 10>>, 0),  WaveValFromBytes(<<161, 1, 10>>, 0),
       WaveValFromBytes(<<1, 2, 0>>, 0),    WaveValFromBytes(<<1, 2, 10>>, 0),
       WaveValFromBytes(<<129, 2, 10>>, 0), WaveValFromBytes(<<33, 3, 10>>, 0) >>

DGLABS_AudioBase == << WaveVal(1, 9, 16) >>

LTX4JAY_IntenseVibration == << WaveVal(1, 9, 22) >>

LTX4JAY_SlowWave ==
    << WaveVal(1, 26, 8),  WaveVal(1, 26, 8),  WaveVal(1, 24, 10),
       WaveVal(1, 22, 12), WaveVal(1, 20, 14), WaveVal(1, 18, 16),
       WaveVal(1, 16, 18), WaveVal(1, 16, 22), WaveVal(1, 16, 24),
       WaveVal(1, 12, 24), WaveVal(1, 12, 24), WaveVal(1, 16, 24),
       WaveVal(1, 16, 22), WaveVal(1, 16, 18), WaveVal(1, 18, 16),
       WaveVal(1, 20, 14), WaveVal(1, 22, 12), WaveVal(1, 24, 10) >>

LTX4JAY_MediumWave ==
    << WaveVal(1, 9, 4),  WaveVal(1, 9, 4),  WaveVal(1, 9, 6),
       WaveVal(1, 9, 10), WaveVal(1, 9, 12), WaveVal(1, 9, 17),
       WaveVal(1, 9, 20), WaveVal(1, 9, 20), WaveVal(1, 9, 20),
       WaveVal(1, 9, 20), WaveVal(1, 9, 20), WaveVal(1, 9, 17),
       WaveVal(1, 9, 12), WaveVal(1, 9, 10), WaveVal(1, 9, 6) >>

(***************************************************************************)
(* Inputs.                                                                 *)
(***************************************************************************)
\* Values of a type of tw bits around 0, around the top of a field of fw
\* bits, just past it, and around the top of the type.
Edges(fw, tw) ==
    (0 .. MaxLow)
    \cup ((2^fw - 1 - MaxLow) .. (2^fw + MaxLow))
    \cup ((2^tw - 1 - MaxLow) .. (2^tw - 1))

\* The edges, and the values the presets use most.
XVals == Edges(5, 8) \cup {1}
YVals == Edges(10, 16) \cup {9, 26}
ZVals == Edges(5, 8) \cup {16, 22, 37}

\* Observed bytes: zero, the first GrainTouch byte, all ones.
ByteVals == {0, 225, 255}

RECURSIVE SeqsUpTo(_, _)
SeqsUpTo(S, n) ==
    IF n = 0 THEN { <<>> }
    ELSE LET shorter == SeqsUpTo(S, n - 1)
         IN  shorter \cup { Append(s, e) : s \in { t \in shorter : Len(t) = n - 1 }, e \in S }

ByteVectors == SeqsUpTo(ByteVals, MaxBytes)

PresetNames == {"GrainTouch", "AudioBase", "IntenseVibration", "SlowWave", "MediumWave"}

(***************************************************************************)
(* State.                                                                  *)
(***************************************************************************)
VARIABLES
    gCoyoteCfg,        \* static struct CFGval
    GrainTouch,        \* DGLABS::GrainTouch
    AudioBase,         \* DGLABS::AudioBase
    IntenseVibration,  \* LTX4JAY::IntenseVibration
    SlowWave,          \* LTX4JAY::SlowWave
    MediumWave,        \* LTX4JAY::MediumWave
    op,                \* what built the current value
    pc,                \* "idle", "built", "sent" or "decoded"
    a, b,              \* arguments of PowerVal(a, b)
    X, Y, Z,           \* arguments of WaveVal(X, Y, Z)
    bytes,             \* argument of WaveVal(std::vector<uint8_t>)
    name, idx,         \* the preset and the step read from it
    power,             \* the PowerVal being sent
    wave,              \* the WaveVal being sent
    tx                 \* the 3 bytes written to the characteristic

statics == << gCoyoteCfg, GrainTouch, AudioBase, IntenseVibration, SlowWave, MediumWave >>
args    == << a, b, X, Y, Z, bytes, name, idx >>
vars    == << statics, op, pc, args, power, wave, tx >>

Preset(n) ==
    CASE n = "GrainTouch"       -> GrainTouch
      [] n = "AudioBase"        -> AudioBase
      [] n = "IntenseVibration" -> IntenseVibration
      [] n = "SlowWave"         -> SlowWave
      [] n = "MediumWave"       -> MediumWave

Init ==
    /\ gCoyoteCfg = gCoyoteCfg_Init
    /\ GrainTouch = DGLABS_GrainTouch
    /\ AudioBase = DGLABS_AudioBase
    /\ IntenseVibration = LTX4JAY_IntenseVibration
    /\ SlowWave = LTX4JAY_SlowWave
    /\ MediumWave = LTX4JAY_MediumWave
    /\ op = "none"
    /\ pc = "idle"
    /\ a = 0 /\ b = 0
    /\ X = 0 /\ Y = 0 /\ Z = 0
    /\ bytes = <<>>
    /\ name = "none" /\ idx = 0
    /\ power = PowerVal(gCoyoteCfg, 0, 0)
    /\ wave = WaveVal(0, 0, 0)
    /\ tx = <<>>

(***************************************************************************)
(* Operations.  Every value is a fresh temporary of one command: it is     *)
(* built, its first 3 bytes are sent, and the command ends.                *)
(***************************************************************************)
\* PowerVal(a, b)
NewPowerVal ==
    /\ pc = "idle"
    /\ \E av \in UInt8, bv \in UInt8 :
        /\ op' = "PowerVal" /\ pc' = "built"
        /\ a' = av /\ b' = bv
        /\ power' = PowerVal(gCoyoteCfg, av, bv)
        /\ X' = 0 /\ Y' = 0 /\ Z' = 0 /\ bytes' = <<>> /\ name' = "none" /\ idx' = 0
        /\ wave' = WaveVal(0, 0, 0)
        /\ tx' = <<>>
        /\ UNCHANGED statics

\* WaveVal(X, Y, Z)
NewWaveVal ==
    /\ pc = "idle"
    /\ \E xv \in XVals, yv \in YVals, zv \in ZVals :
        /\ op' = "WaveVal" /\ pc' = "built"
        /\ X' = xv /\ Y' = yv /\ Z' = zv
        /\ wave' = WaveVal(xv, yv, zv)
        /\ a' = 0 /\ b' = 0 /\ bytes' = <<>> /\ name' = "none" /\ idx' = 0
        /\ power' = PowerVal(gCoyoteCfg, 0, 0)
        /\ tx' = <<>>
        /\ UNCHANGED statics

\* WaveVal(bytes), built in storage whose byte 3 holds old.
NewWaveValFromBytes ==
    /\ pc = "idle"
    /\ \E bs \in ByteVectors, old \in UInt8 :
        /\ op' = "WaveValFromBytes" /\ pc' = "built"
        /\ bytes' = bs
        /\ wave' = WaveValFromBytes(bs, old)
        /\ a' = 0 /\ b' = 0 /\ X' = 0 /\ Y' = 0 /\ Z' = 0 /\ name' = "none" /\ idx' = 0
        /\ power' = PowerVal(gCoyoteCfg, 0, 0)
        /\ tx' = <<>>
        /\ UNCHANGED statics

\* Read of step i of a preset (const Waveform, operator[]).  Only the
\* GrainTouch steps have unwritten bits; old is what the read finds there.
Lookup ==
    /\ pc = "idle"
    /\ \E n \in PresetNames, old \in UInt8 :
        \E i \in 1 .. Len(Preset(n)) :
            /\ n # "GrainTouch" => old = 0
            /\ op' = "Lookup" /\ pc' = "built"
            /\ name' = n /\ idx' = i
            /\ wave' = [Preset(n)[i] EXCEPT !.rsvd = @ + (2^4) * old]
            /\ a' = 0 /\ b' = 0 /\ X' = 0 /\ Y' = 0 /\ Z' = 0 /\ bytes' = <<>>
            /\ power' = PowerVal(gCoyoteCfg, 0, 0)
            /\ tx' = <<>>
            /\ UNCHANGED statics

\* The first 3 bytes of the PowerVal are written to the device.
SendPower ==
    /\ pc = "built" /\ op = "PowerVal"
    /\ tx' = First3(PowerValBytes(power))
    /\ pc' = "sent"
    /\ UNCHANGED << statics, op, args, power, wave >>

\* The first 3 bytes of the WaveVal are written to the device.
SendWave ==
    /\ pc = "built" /\ op # "PowerVal"
    /\ tx' = First3(WaveValBytes(wave))
    /\ pc' = "sent"
    /\ UNCHANGED << statics, op, args, power, wave >>

\* A WaveVal is constructed from the observed transmitted bytes of a step
\* that was built from values.
Decode ==
    /\ pc = "sent" /\ op = "WaveVal"
    /\ \E old \in UInt8 : wave' = WaveValFromBytes(tx, old)
    /\ pc' = "decoded"
    /\ UNCHANGED << statics, op, args, power, tx >>

\* The command is over: its temporaries are gone.
EndCommand ==
    /\ pc # "idle"
    /\ op' = "none" /\ pc' = "idle"
    /\ a' = 0 /\ b' = 0 /\ X' = 0 /\ Y' = 0 /\ Z' = 0
    /\ bytes' = <<>> /\ name' = "none" /\ idx' = 0
    /\ power' = PowerVal(gCoyoteCfg, 0, 0)
    /\ wave' = WaveVal(0, 0, 0)
    /\ tx' = <<>>
    /\ UNCHANGED statics

Next ==
    \/ NewPowerVal
    \/ NewWaveVal
    \/ NewWaveValFromBytes
    \/ Lookup
    \/ SendPower
    \/ SendWave
    \/ Decode
    \/ EndCommand

Spec == Init /\ [][Next]_vars

(***************************************************************************)
(* Properties.                                                             *)
(***************************************************************************)
Min100(v) == IF v < 100 THEN v ELSE 100

\* The 3 little-endian bytes of a number below 2^24.
LE3(n) == << n % 256, (n \div 256) % 256, n \div 65536 >>

\* The number 3 bytes denote, first byte least significant.
Num3(t) == t[1] + 256 * t[2] + 65536 * t[3]

\* C1: with step = 7, PowerVal(a, b) has A = min(a, 100) * 7 and
\* B = min(b, 100) * 7 for all a, b in 0..255, and rsvd = 0.
C1_PowerValScaled ==
    op = "PowerVal" =>
        /\ power.A = Min100(a) * 7
        /\ power.B = Min100(b) * 7
        /\ power.rsvd = 0
        /\ (a = 25 /\ b = 25) => (power.A = 175 /\ power.B = 175)
        /\ a >= 100 => power.A = 700
        /\ b >= 100 => power.B = 700

C1_Witness ==
    op = "PowerVal" /\ pc = "built" /\ a = 255 /\ b = 25 /\ power.A = 700 /\ power.B = 175

\* C2: a WaveVal built from the 3 serialized bytes of WaveVal(x, y, z), with
\* x, y, z inside their fields, equals WaveVal(x, y, z) in every field,
\* the whole 12-bit rsvd included.
C2_RoundTrip ==
    (op = "WaveVal" /\ pc = "decoded" /\ X < 2^5 /\ Y < 2^10 /\ Z < 2^5) =>
        wave = WaveVal(X, Y, Z)

\* C3 as stated: WaveVal(1, 9, 16) is sent as the bytes E1 03 00.
C3_AudioBaseAsStated ==
    (op = "WaveVal" /\ pc = "sent" /\ X = 1 /\ Y = 9 /\ Z = 16) => tx = << 225, 3, 0 >>

\* C3, amended: WaveVal(1, 9, 16), the only step of AudioBase, is sent as
\* the bytes 21 01 08; the bytes E1 03 00 are the step x = 1, y = 31, z = 0.
C3_AudioBaseBytes ==
    /\ (op = "WaveVal" /\ pc = "sent" /\ X = 1 /\ Y = 9 /\ Z = 16) => tx = << 33, 1, 8 >>
    /\ (op = "Lookup" /\ pc = "sent" /\ name = "AudioBase") => tx = << 33, 1, 8 >>
    /\ (op = "WaveVal" /\ pc = "sent" /\ tx = << 225, 3, 0 >>) =>
           (wave.x = 1 /\ wave.y = 31 /\ wave.z = 0)

C3_Witness ==
    op = "WaveVal" /\ pc = "sent" /\ X = 1 /\ Y = 9 /\ Z = 16 /\ tx = << 33, 1, 8 >>

\* C4: for x, y, z inside their fields the 3 bytes sent for WaveVal(x, y, z)
\* are the little-endian bytes of x + y * 2^5 + z * 2^15, and a step built
\* from 3 bytes denoting n has x = n mod 32, y = (n div 32) mod 1024,
\* z = (n div 32768) mod 32.
C4_WaveWireFormat ==
    /\ (op = "WaveVal" /\ pc = "sent" /\ X < 2^5 /\ Y < 2^10 /\ Z < 2^5) =>
           tx = LE3(X + Y * 32 + Z * 32768)
    /\ (op = "WaveValFromBytes" /\ pc = "built" /\ Len(bytes) = 3) =>
           /\ wave.x = Num3(bytes) % 32
           /\ wave.y = (Num3(bytes) \div 32) % 1024
           /\ wave.z = (Num3(bytes) \div 32768) % 32
    /\ pc = "decoded" =>
           /\ wave.x = Num3(tx) % 32
           /\ wave.y = (Num3(tx) \div 32) % 1024
           /\ wave.z = (Num3(tx) \div 32768) % 32

C4_Witness ==
    op = "WaveVal" /\ pc = "decoded" /\ X = 31 /\ Y = 1023 /\ Z = 16
        /\ tx = << 255, 127, 8 >> /\ wave.y = 1023

\* C5: the 3 bytes sent for PowerVal(a, b) are the little-endian bytes of
\* B + A * 2^11: B in bits 0-10, A in bits 11-21, bits 22-23 zero.
C5_PowerWireFormat ==
    (op = "PowerVal" /\ pc = "sent") =>
        /\ Len(tx) = 3
        /\ tx = LE3(power.B + power.A * 2048)
        /\ Num3(tx) % 2048 = Min100(b) * 7
        /\ (Num3(tx) \div 2048) % 2048 = Min100(a) * 7
        /\ Num3(tx) \div (2^22) = 0

C5_Witness ==
    op = "PowerVal" /\ pc = "sent" /\ a = 25 /\ b = 100 /\ tx = << 188, 122, 5 >>

\* C6: a WaveVal built from a byte vector of any length is sent as the
\* first 3 bytes of the vector, zero bytes standing in for the missing
\* ones; a vector longer than 3 bytes gives the step its 3-byte prefix gives
\* in the same storage.
C6_PadAndTruncate ==
    /\ (op = "WaveValFromBytes" /\ pc = "sent") =>
           /\ tx = << IF Len(bytes) >= 1 THEN bytes[1] ELSE 0,
                      IF Len(bytes) >= 2 THEN bytes[2] ELSE 0,
                      IF Len(bytes) >= 3 THEN bytes[3] ELSE 0 >>
           /\ bytes = << >> => tx = << 0, 0, 0 >>
           /\ bytes = << 225 >> => tx = << 225, 0, 0 >>
    /\ (op = "WaveValFromBytes" /\ Len(bytes) > 3) =>
           wave = WaveValFromBytes(SubSeq(bytes, 1, 3), wave.rsvd \div (2^4))

C6_Witness ==
    op = "WaveValFromBytes" /\ pc = "sent" /\ bytes = << 225 >> /\ tx = << 225, 0, 0 >>

\* C7: every WaveVal, built from values, built from bytes or read from a
\* preset, is sent with its reserved bits (bits 20-23 of the 3 bytes) zero.
C7_ReservedZeroOnOutput ==
    (pc = "sent" /\ op \in {"WaveVal", "WaveValFromBytes", "Lookup"}) =>
        tx[3] \div (2^4) = 0

\* C8: WaveVal(X, Y, Z) has x = X mod 32, y = Y mod 1024, z = Z mod 32 and
\* rsvd = 0 for arguments of the full uint8_t / uint16_t range, and the
\* bytes sent hold each wrapped value in its own bits only.
C8_FieldsWrap ==
    (op = "WaveVal" /\ pc \in {"built", "sent"}) =>
        /\ wave.x = X % 32
        /\ wave.y = Y % 1024
        /\ wave.z = Z % 32
        /\ wave.rsvd = 0
        /\ Z = 37 => wave.z = 5
        /\ pc = "sent" => tx = LE3((X % 32) + (Y % 1024) * 32 + (Z % 32) * 32768)

C8_Witness ==
    op = "WaveVal" /\ pc = "sent" /\ X = 32 /\ Y = 1024 /\ Z = 37
        /\ wave.x = 0 /\ wave.y = 0 /\ wave.z = 5 /\ tx = << 0, 128, 2 >>

C9_GrainTouchBytes ==
    << << 225, 3, 0 >>, << 225, 3, 10 >>, << 161, 4, 10 >>, << 193, 5, 10 >>,
       << 1, 7, 0 >>,   << 33, 1, 10 >>,  << 97, 1, 10 >>,  << 161, 1, 10 >>,
       << 1, 2, 0 >>,   << 1, 2, 10 >>,   << 129, 2, 10 >>, << 33, 3, 10 >> >>

C9_SlowWaveY == << 26, 26, 24, 22, 20, 18, 16, 16, 16, 12, 12, 16, 16, 16, 18, 20, 22, 24 >>

C9_SlowWaveZ == << 8, 8, 10, 12, 14, 16, 18, 22, 24, 24, 24, 24, 22, 18, 16, 14, 12, 10 >>

C9_MediumWaveZ == << 4, 4, 6, 10, 12, 17, 20, 20, 20, 20, 20, 17, 12, 10, 6 >>

C9_XYZ(w, xv, yv, zv) == w.x = xv /\ w.y = yv /\ w.z = zv

\* C9: in every state, whatever operations ran, GrainTouch has its 12
\* steps, AudioBase 1, IntenseVibration 1, SlowWave 18 and MediumWave 15,
\* each step at its listed place, and a read of step i yields that step.
C9_PresetIntegrity ==
    /\ Len(GrainTouch) = 12
    /\ \A i \in 1 .. 12 : First3(WaveValBytes(GrainTouch[i])) = C9_GrainTouchBytes[i]
    /\ Len(AudioBase) = 1 /\ C9_XYZ(AudioBase[1], 1, 9, 16)
    /\ Len(IntenseVibration) = 1 /\ C9_XYZ(IntenseVibration[1], 1, 9, 22)
    /\ Len(SlowWave) = 18
    /\ \A i \in 1 .. 18 : C9_XYZ(SlowWave[i], 1, C9_SlowWaveY[i], C9_SlowWaveZ[i])
    /\ Len(MediumWave) = 15
    /\ \A i \in 1 .. 15 : C9_XYZ(MediumWave[i], 1, 9, C9_MediumWaveZ[i])
    /\ (op = "Lookup" /\ pc = "sent" /\ name = "GrainTouch") => tx = C9_GrainTouchBytes[idx]
    /\ (op = "Lookup" /\ pc = "built" /\ name = "SlowWave") =>
           C9_XYZ(wave, 1, C9_SlowWaveY[idx], C9_SlowWaveZ[idx])
    /\ (op = "Lookup" /\ pc = "built" /\ name = "MediumWave") =>
           C9_XYZ(wave, 1, 9, C9_MediumWaveZ[idx])

C9_Witness ==
    op = "Lookup" /\ pc = "sent" /\ name = "GrainTouch" /\ idx = 12
        /\ tx = << 33, 3, 10 >> /\ Len(GrainTouch) = 12

\* C10: with gCoyoteCfg = {7, 2000}, PowerVal(a, b) has A <= 700 <= maxPwr
\* and B <= 700 <= maxPwr for all a, b in 0..255; min(level, 100) * step is
\* below 2^11 and is stored uncut; no level gives more than level 100 does.
C10_PowerCeiling ==
    op = "PowerVal" =>
        /\ power.A <= 700 /\ power.B <= 700
        /\ 700 <= gCoyoteCfg.maxPwr
        /\ Min100(a) * gCoyoteCfg.step < 2^11
        /\ Min100(b) * gCoyoteCfg.step < 2^11
        /\ power.A = Min100(a) * gCoyoteCfg.step
        /\ power.B = Min100(b) * gCoyoteCfg.step
        /\ power.A <= PowerVal(gCoyoteCfg, 100, 100).A
        /\ power.B <= PowerVal(gCoyoteCfg, 100, 100).B

C10_Witness ==
    op = "PowerVal" /\ pc = "built" /\ a = 255 /\ b = 255
        /\ power.A = 700 /\ power.B = 700 /\ gCoyoteCfg.maxPwr = 2000

=============================================================================
